---------------------------- MODULE Spec2Model ----------------------------
(***************************************************************************)
(* A model of tasmogo (src/tasmogo.go): main, the scan cycles of           *)
(* scanAndUpdate and the goroutines of scanNetwork.                        *)
(*                                                                         *)
(*  - Strings that the program takes apart (firmware strings, version      *)
(*    strings, release tags) are sequences of one-character strings, so    *)
(*    that the regular expression of parseFirmwareVersion and the parser   *)
(*    of go-version are computed, not assumed.  Their alphabet is: digits, *)
(*    lower-case letters, ".", "-", "(" and ")".                           *)
(*  - An IPv4 address is a sequence of four octets.  An octet has          *)
(*    OctetBits bits (8 in the program), so the uint32 arithmetic of       *)
(*    scanNetwork is arithmetic modulo 2^(4*OctetBits), wrap-around        *)
(*    included.                                                            *)
(***************************************************************************)
EXTENDS Integers, Sequences, FiniteSets, TLC

(***************************************************************************)
(* Bounds of the model.                                                    *)
(***************************************************************************)
\* bits of one octet of an address (the program's octets have 8)
OctetBits == 1
\* the scanned ranges have at most 2^MaxHostBits addresses
MaxHostBits == 1
\* goroutines the launch loop may start in one scan
MaxLaunch == 3
\* scan cycles the daemon runs
MaxCycles == 2

RECURSIVE Pow2(_)
Pow2(n) == IF n <= 0 THEN 1 ELSE 2 * Pow2(n - 1)

\* one more than the largest octet (256 in the program)
OctetBase == Pow2(OctetBits)
\* width of an address as an integer (32 in the program)
AddrBits == 4 * OctetBits
\* 0xffffffff
MaxUint32 == Pow2(AddrBits) - 1

(***************************************************************************)
(* Strings as sequences of characters.                                     *)
(***************************************************************************)
Digits == <<"0", "1", "2", "3", "4", "5", "6", "7", "8", "9">>
DigitSet == {Digits[k] : k \in 1..10}
Letters == {"a", "b", "c", "d", "e", "f", "g", "h", "i", "j", "k", "l", "m",
            "n", "o", "p", "q", "r", "s", "t", "u", "v", "w", "x", "y", "z"}

DigitVal(c) == (CHOOSE k \in 1..10 : Digits[k] = c) - 1

\* s[from..] (empty when from is past the end)
Drop(s, n) == SubSeq(s, n + 1, Len(s))
Take(s, n) == SubSeq(s, 1, n)

\* strconv.Itoa / strconv.FormatInt(n, 10) for n >= 0
RECURSIVE Itoa(_)
Itoa(n) == IF n < 10 THEN <<Digits[n + 1]>>
           ELSE Itoa(n \div 10) \o <<Digits[(n % 10) + 1]>>

\* strconv.ParseInt(s, 10, 64) of a non-empty string of digits
RECURSIVE Atoi(_)
Atoi(s) == IF Len(s) = 0 THEN 0
           ELSE 10 * Atoi(Take(s, Len(s) - 1)) + DigitVal(s[Len(s)])

\* strings.Split(s, "."): the parts between the dots, empty parts included
RECURSIVE SplitDots(_)
SplitDots(s) ==
    IF \A k \in 1..Len(s) : s[k] # "."
    THEN <<s>>
    ELSE LET p == CHOOSE k \in 1..Len(s) : s[k] = "." /\ \A j \in 1..(k - 1) : s[j] # "."
         IN  <<Take(s, p - 1)>> \o SplitDots(Drop(s, p))

\* strings.Join(parts, ".")
RECURSIVE JoinDots(_)
JoinDots(parts) ==
    IF Len(parts) = 0 THEN <<>>
    ELSE IF Len(parts) = 1 THEN parts[1]
    ELSE parts[1] \o <<".">> \o JoinDots(Tail(parts))

(***************************************************************************)
(* github.com/hashicorp/go-version, as far as tasmogo uses it.             *)
(***************************************************************************)
\* length of the longest prefix of s of the shape [0-9]+(\.[0-9]+)*
RECURSIVE NumericPrefix(_, _)
NumericPrefix(s, k) ==
    \* k characters are a valid numeric part (k = 0: none yet); try to extend
    LET dotted == k > 0 /\ k + 2 <= Len(s) /\ s[k + 1] = "." /\ s[k + 2] \in DigitSet
        digit  == k + 1 <= Len(s) /\ s[k + 1] \in DigitSet
    IN  IF digit THEN NumericPrefix(s, k + 1)
        ELSE IF dotted THEN NumericPrefix(s, k + 2)
        ELSE k

\* the prerelease part of the version pattern:
\*   -[0-9]+[0-9A-Za-z\-~]*(\.[0-9A-Za-z\-~]+)*  or  -?[A-Za-z\-~]+[0-9A-Za-z\-~]*(\.[0-9A-Za-z\-~]+)*
PrereleaseOK(rest) ==
    /\ Len(rest) > 0
    /\ rest[1] \in Letters \cup {"-"}
    /\ \A k \in 1..Len(rest) : rest[k] \in Letters \cup DigitSet \cup {"-", "."}
    /\ \A k \in 1..Len(SplitDots(rest)) : Len(SplitDots(rest)[k]) > 0

\* the text the pattern captures as prerelease: without the dash that introduces it
PrereleaseOf(rest) ==
    IF Len(rest) > 1 /\ rest[1] = "-" /\ rest[2] # "." THEN Tail(rest) ELSE rest

\* a nil *Version
NilVersion == [isNil |-> TRUE, segments |-> <<>>, pre |-> <<>>]

\* version.NewVersion: NilVersion with an error, else the segments (padded to
\* three) and the prerelease text
NewVersion(v) ==
    LET s    == IF Len(v) > 0 /\ v[1] = "v" THEN Tail(v) ELSE v
        n    == NumericPrefix(s, 0)
        rest == Drop(s, n)
        segs == SplitDots(Take(s, n))
        nums == [k \in 1..Len(segs) |-> Atoi(segs[k])]
        pad  == IF Len(nums) < 3 THEN [k \in 1..(3 - Len(nums)) |-> 0] ELSE <<>>
    IN  IF n = 0 THEN NilVersion
        ELSE IF Len(rest) > 0 /\ ~PrereleaseOK(rest) THEN NilVersion
        ELSE [isNil    |-> FALSE,
              segments |-> nums \o pad,
              pre      |-> IF Len(rest) = 0 THEN <<>> ELSE PrereleaseOf(rest)]

\* (*Version).String
VersionString(ver) ==
    JoinDots([k \in 1..Len(ver.segments) |-> Itoa(ver.segments[k])])
        \o (IF Len(ver.pre) > 0 THEN <<"-">> \o ver.pre ELSE <<>>)

AllZero(segs) == \A k \in 1..Len(segs) : segs[k] = 0

\* the loop of (*Version).Compare over the segments, from index k
RECURSIVE CompareSegments(_, _, _)
CompareSegments(self, other, k) ==
    LET hS == IF Len(self) < Len(other) THEN Len(other) ELSE Len(self)
    IN  IF k > hS THEN 0
        ELSE IF k > Len(self)
             THEN (IF ~AllZero(Drop(other, k - 1)) THEN -1 ELSE 0)
        ELSE IF k > Len(other)
             THEN (IF ~AllZero(Drop(self, k - 1)) THEN 1 ELSE 0)
        ELSE IF self[k] = other[k] THEN CompareSegments(self, other, k + 1)
        ELSE IF self[k] < other[k] THEN -1
        ELSE 1

\* (*Version).Compare.  Two different prereleases on equal segments are compared
\* by comparePrereleases, which is not modelled: the reference versions of the
\* model carry no prerelease, and the CASE has no arm for it.
Compare(self, other) ==
    IF VersionString(self) = VersionString(other) THEN 0
    ELSE IF self.segments = other.segments
         THEN CASE self.pre = <<>> /\ other.pre = <<>> -> 0
                [] self.pre = <<>> /\ other.pre # <<>> -> 1
                [] self.pre # <<>> /\ other.pre = <<>> -> -1
         ELSE CompareSegments(self.segments, other.segments, 1)

\* LessThan with the comparison made non-strict
LessThanOrEqual(self, other) == Compare(self, other) <= 0

\* (*Version).LessThan
LessThan(self, other) == Compare(self, other) < 0

(***************************************************************************)
(* github.com/tcnksm/go-latest: latest.Check on the GithubTag source with  *)
(* FixVersionStrFunc = DeleteFrontV().                                     *)
(***************************************************************************)
\* latest.DeleteFrontV(): strings.Replace(s, "v", "", 1)
DeleteFrontV(s) ==
    IF \A k \in 1..Len(s) : s[k] # "v" THEN s
    ELSE LET p == CHOOSE k \in 1..Len(s) : s[k] = "v" /\ \A j \in 1..(k - 1) : s[j] # "v"
         IN  Take(s, p - 1) \o Drop(s, p)

\* What the release feed answers: an error of the fetch, or the latest tag.
FeedError == [kind |-> "error", tag |-> <<>>]
FeedTag(t) == [kind |-> "tag", tag |-> t]
NoFeed == [kind |-> "none", tag |-> <<>>]

\* latest.Check(v, "0.1.0"): an error when the fetch fails or when no tag of the
\* feed parses as a version (go-latest drops such tags), else Current, the
\* String() of the newest version
latestCheck(f) ==
    LET ver == NewVersion(DeleteFrontV(f.tag))
    IN  IF f.kind = "error" \/ ver.isNil
        THEN [err |-> TRUE, Current |-> <<>>]
        ELSE [err |-> FALSE, Current |-> VersionString(ver)]

(***************************************************************************)
(* Addresses.                                                              *)
(***************************************************************************)
RECURSIVE BitAnd(_, _, _)
BitAnd(a, b, n) == IF n = 0 THEN 0
                   ELSE (a % 2) * (b % 2) + 2 * BitAnd(a \div 2, b \div 2, n - 1)
RECURSIVE BitOr(_, _, _)
BitOr(a, b, n) == IF n = 0 THEN 0
                  ELSE (IF (a % 2) + (b % 2) > 0 THEN 1 ELSE 0)
                       + 2 * BitOr(a \div 2, b \div 2, n - 1)
RECURSIVE BitXor(_, _, _)
BitXor(a, b, n) == IF n = 0 THEN 0
                   ELSE (((a % 2) + (b % 2)) % 2) + 2 * BitXor(a \div 2, b \div 2, n - 1)

\* binary.BigEndian.Uint32(b): the first four octets of b, most significant first
Uint32(b) == ((b[1] * OctetBase + b[2]) * OctetBase + b[3]) * OctetBase + b[4]

\* binary.BigEndian.PutUint32(ip, i) on ip := make(net.IP, 4)
PutUint32(n) ==
    << (n \div (OctetBase * OctetBase * OctetBase)) % OctetBase,
       (n \div (OctetBase * OctetBase)) % OctetBase,
       (n \div OctetBase) % OctetBase,
       n % OctetBase >>

\* ip2int converts a given IP of type net.IP to an integer.
ip2int(ip) ==
    IF Len(ip) = 16 THEN Uint32(SubSeq(ip, 13, 16)) ELSE Uint32(ip)

\* net.CIDRMask(ones, 32): octet k of the mask
CIDRMask(ones) ==
    [k \in 1..4 |->
        LET r == ones - (k - 1) * OctetBits
        IN  IF r >= OctetBits THEN OctetBase - 1
            ELSE IF r <= 0 THEN 0
            ELSE OctetBase - Pow2(OctetBits - r)]

\* net.ParseCIDR of "a.b.c.d/bits" (the text is given by its parts): an error
\* when the prefix length is out of range, else IPNet{IP: ip.Mask(m), Mask: m}
ParseCIDR(cidr) ==
    IF cidr.bits < 0 \/ cidr.bits > AddrBits
    THEN [err |-> TRUE, IP |-> <<>>, Mask |-> <<>>]
    ELSE LET m == CIDRMask(cidr.bits)
         IN  [err  |-> FALSE,
              IP   |-> [k \in 1..4 |-> BitAnd(cidr.ip[k], m[k], OctetBits)],
              Mask |-> m]

(***************************************************************************)
(* Devices and the functions of tasmogo.go.                                *)
(***************************************************************************)
\* var device tasmoDevice
ZeroDevice == [Name |-> "", FirmwareVersion |-> <<>>, FirmwareType |-> <<>>,
               Outdated |-> FALSE, IP |-> <<>>]

\* last index of character c in s below index limit (0: none)
LastIndexBelow(s, c, limit) ==
    LET found == {k \in 1..Len(s) : k < limit /\ s[k] = c}
    IN  IF found = {} THEN 0 ELSE CHOOSE k \in found : \A j \in found : j <= k

\* parseFirmwareVersion: the leftmost match of (.*)\((.*)\), both groups greedy:
\* group 2 ends at the last ")", group 1 at the last "(" before it; the match
\* need not reach the end of v
parseFirmwareVersion(v) ==
    LET close == LastIndexBelow(v, ")", Len(v) + 1)
        open  == LastIndexBelow(v, "(", close)
    IN  IF close = 0 \/ open = 0
        THEN [version |-> <<>>, variant |-> <<>>, err |-> TRUE]
        ELSE [version |-> Take(v, open - 1),
              variant |-> SubSeq(v, open + 1, close - 1),
              err     |-> FALSE]

\* What a device address answers to one GET: no answer (connection refused,
\* timeout), an answer whose body cannot be read to its end, or a status code
\* and a body.  Of the body, the two fields gjson.Get extracts ("" when absent).
NoBody == [DeviceName |-> "", Version |-> <<>>]
Refused == [kind |-> "refused", status |-> 0, body |-> NoBody]
BrokenBody == [kind |-> "brokenbody", status |-> 200, body |-> NoBody]
Http(status, name, fw) ==
    [kind |-> "http", status |-> status, body |-> [DeviceName |-> name, Version |-> fw]]

\* getURL: client.Do fails -> ("", error); ioutil.ReadAll fails -> panic;
\* otherwise (body, nil), whatever the status code
getURL(resp) ==
    IF resp.kind = "refused" THEN [body |-> NoBody, err |-> TRUE, panic |-> FALSE]
    ELSE IF resp.kind = "brokenbody" THEN [body |-> NoBody, err |-> FALSE, panic |-> TRUE]
    ELSE [body |-> resp.body, err |-> FALSE, panic |-> FALSE]

\* getDeviceData with the error of parseFirmwareVersion dropped as well
getDeviceDataNoErrorCheck(ip, resp) ==
    LET got    == getURL(resp)
        data   == got.body
        parsed == parseFirmwareVersion(data.Version)
    IN  IF got.panic THEN [device |-> ZeroDevice, err |-> FALSE, panic |-> TRUE]
        ELSE [device |-> [Name            |-> data.DeviceName,
                          FirmwareVersion |-> parsed.version,
                          FirmwareType    |-> parsed.variant,
                          Outdated        |-> FALSE,
                          IP              |-> ip],
              err    |-> FALSE,
              panic  |-> FALSE]

\* getDeviceData loads the data from a given device ip (resp: what the address
\* answers).  The error of getURL is dropped: data is "" then.
getDeviceData(ip, resp) ==
    LET got    == getURL(resp)
        data   == got.body
        parsed == parseFirmwareVersion(data.Version)
    IN  IF got.panic THEN [device |-> ZeroDevice, err |-> FALSE, panic |-> TRUE]
        ELSE IF parsed.err THEN [device |-> ZeroDevice, err |-> TRUE, panic |-> FALSE]
        ELSE [device |-> [Name            |-> data.DeviceName,
                          FirmwareVersion |-> parsed.version,
                          FirmwareType    |-> parsed.variant,
                          Outdated        |-> FALSE,
                          IP              |-> ip],
              err    |-> FALSE,
              panic  |-> FALSE]

\* getCurrentTasmotaVersion with the error of latest.Check only logged
getCurrentTasmotaVersionNoFatal(f) ==
    LET res == latestCheck(f)
    IN  [fatal |-> FALSE,
         version |-> IF res.err THEN NilVersion ELSE NewVersion(res.Current)]

\* getCurrentTasmotaVersion: log.Fatal when latest.Check fails; the error of
\* version.NewVersion(res.Current) is dropped
getCurrentTasmotaVersion(f) ==
    LET res == latestCheck(f)
    IN  IF res.err THEN [fatal |-> TRUE, version |-> NilVersion]
        ELSE [fatal |-> FALSE, version |-> NewVersion(res.Current)]

\* checkDeviceVersion returning a device it has built anew from the version
\* fields, without the name
checkDeviceVersionLosesName(v, device) ==
    LET deviceVersion == NewVersion(device.FirmwareVersion)
        fresh == [device EXCEPT !.Name = ""]
    IN  IF deviceVersion.isNil THEN [device |-> device, err |-> TRUE, panic |-> FALSE]
        ELSE IF v.isNil THEN [device |-> device, err |-> FALSE, panic |-> TRUE]
        ELSE IF LessThan(deviceVersion, v)
             THEN [device |-> [fresh EXCEPT !.Outdated = TRUE], err |-> FALSE, panic |-> FALSE]
        ELSE [device |-> fresh, err |-> FALSE, panic |-> FALSE]

\* checkDeviceVersion compares two version strings to evaluate if an update is
\* needed.  LessThan on a nil reference dereferences it: panic.
checkDeviceVersion(v, device) ==
    LET deviceVersion == NewVersion(device.FirmwareVersion)
    IN  IF deviceVersion.isNil THEN [device |-> device, err |-> TRUE, panic |-> FALSE]
        ELSE IF v.isNil THEN [device |-> device, err |-> FALSE, panic |-> TRUE]
        ELSE IF LessThan(deviceVersion, v)
             THEN [device |-> [device EXCEPT !.Outdated = TRUE], err |-> FALSE, panic |-> FALSE]
        ELSE [device |-> device, err |-> FALSE, panic |-> FALSE]

\* sort.Slice(knownDevices, less) with less(i, j) = ip2int(IP[i]) < ip2int(IP[j]):
\* insertion of d into a list that is in order
RECURSIVE SortInsert(_, _)
SortInsert(sorted, d) ==
    IF Len(sorted) = 0 THEN <<d>>
    ELSE IF ip2int(d.IP) < ip2int(sorted[1].IP) THEN <<d>> \o sorted
    ELSE <<sorted[1]>> \o SortInsert(Tail(sorted), d)

\* the sort left out: the list stays in the order of arrival
SortByIPLeftOut(devices) == devices

RECURSIVE SortByIP(_)
SortByIP(devices) ==
    IF Len(devices) = 0 THEN <<>>
    ELSE SortInsert(SortByIP(Take(devices, Len(devices) - 1)), devices[Len(devices)])

\* renderDeviceTable: one row per device, in the order of the list
renderDeviceTable(devices) ==
    [k \in 1..Len(devices) |->
        [IP              |-> devices[k].IP,
         Name            |-> devices[k].Name,
         FirmwareVersion |-> devices[k].FirmwareVersion,
         FirmwareType    |-> devices[k].FirmwareType,
         outdated        |-> IF devices[k].Outdated THEN "outdated" ELSE ""]]

(***************************************************************************)
(* The text of the requests.                                               *)
(***************************************************************************)
\* "http://"
sHttp == <<"h", "t", "t", "p", ":", "/", "/">>
\* "/cm?"
sCm == <<"/", "c", "m", "?">>
\* "user=admin&password="
sUserAdminPassword ==
    <<"u", "s", "e", "r", "=", "a", "d", "m", "i", "n", "&", "p", "a", "s", "s", "w", "o", "r", "d", "=">>
\* "&"
sAmp == <<"&">>
\* "cmnd=Status%200"
sCmndStatus == <<"c", "m", "n", "d", "=", "S", "t", "a", "t", "u", "s", "%", "2", "0", "0">>
\* "cmnd=OtaUrl%20"
sCmndOtaUrl == <<"c", "m", "n", "d", "=", "O", "t", "a", "U", "r", "l", "%", "2", "0">>
\* "cmnd=Upgrade%201"
sCmndUpgrade == <<"c", "m", "n", "d", "=", "U", "p", "g", "r", "a", "d", "e", "%", "2", "0", "1">>
\* "tasmota"
sTasmota == <<"t", "a", "s", "m", "o", "t", "a">>
\* ".bin"
sBin == <<".", "b", "i", "n">>

\* net.IP.String() of a 4-byte address: the octets in decimal, joined by dots
IPString(ip) == JoinDots([k \in 1..Len(ip) |-> Itoa(ip[k])])

\* getPasswordQuery with the closing "&" left out
getPasswordQueryNoSeparator(password) ==
    IF password # <<>> THEN sUserAdminPassword \o password ELSE <<>>

\* getPasswordQuery checks if a login password was given and returns the needed
\* URL query part
getPasswordQuery(password) ==
    IF password # <<>> THEN sUserAdminPassword \o password \o sAmp ELSE <<>>

\* buildDeviceURL
buildDeviceURL(hostname, password) ==
    sHttp \o hostname \o sCm \o getPasswordQuery(password) \o sCmndStatus

\* the file name chosen without regard to the default build
otaURLAlwaysVariant(otaurl, device) ==
    (otaurl \o sTasmota) \o <<"-">> \o device.FirmwareType \o sBin

\* updateDevices, lines 256-270: the file the device is to load, from the
\* configured otaurl and the device's FirmwareType
otaURL(otaurl, device) ==
    LET otaBaseURL == otaurl \o sTasmota
    IN  IF device.FirmwareType = sTasmota
        THEN otaBaseURL \o sBin
        ELSE otaBaseURL \o <<"-">> \o device.FirmwareType \o sBin

\* updateDevices, line 273: the url that sets the ota url
otaUrlRequestURL(device, auth, otaurl) ==
    sHttp \o IPString(device.IP) \o sCm \o auth \o sCmndOtaUrl \o otaURL(otaurl, device)

\* updateDevices, line 276: the url that triggers the upgrade
upgradeRequestURL(device, auth) ==
    sHttp \o IPString(device.IP) \o sCm \o auth \o sCmndUpgrade

(***************************************************************************)
(* The inputs of the model.                                                *)
(***************************************************************************)
\* TASMOGO_CIDR: every address with the prefix lengths that give at most
\* 2^MaxHostBits addresses, and one prefix length that is out of range
Cidrs == {[ip |-> PutUint32(a), bits |-> b] :
            a \in 0..MaxUint32, b \in (AddrBits - MaxHostBits)..(AddrBits + 1)}

fwOld == <<"1", ".", "0", ".", "0", "(", "t", "a", "s", "m", "o", "t", "a", ")">>
fwNew == <<"2", ".", "0", ".", "0", "(", "s", "e", "n", "s", "o", "r", "s", ")">>
fwNoVersion == <<"(", "t", "a", "s", "m", "o", "t", "a", ")">>
fwTest == <<"t", "e", "s", "t">>

\* what an address may answer to the status query
DeviceResponses ==
    { Refused, BrokenBody,
      Http(200, "A", fwOld), Http(200, "B", fwNew), Http(200, "", fwNoVersion),
      Http(200, "", fwTest), Http(500, "A", fwOld) }

\* what a device may answer to an OtaUrl or Upgrade request
UpdateResponses == { Refused, BrokenBody, Http(200, "", <<>>), Http(500, "", <<>>) }

\* TASMOGO_PASSWORD: not set, or set
Passwords == { <<>>, <<"p", "w">> }

\* viper.SetDefault("otaurl", "http://ota.tasmota.com/tasmota/release/")
DefaultOtaUrl ==
    <<"h", "t", "t", "p", ":", "/", "/", "o", "t", "a", ".", "t", "a", "s", "m", "o", "t", "a", ".", "c", "o", "m", "/", "t", "a", "s", "m", "o", "t", "a", "/", "r", "e", "l", "e", "a", "s", "e", "/">>

\* what the release feed may answer
Feeds == { FeedError, FeedTag(<<"x">>), FeedTag(<<"v", "1", ".", "5", ".", "0">>) }

(***************************************************************************)
(* The state.                                                              *)
(***************************************************************************)
VARIABLES
    cfg,            \* viper: cidr, doupdates, password, otaurl, daemon
    main,           \* main: the scan cycle, the hours slept, signal.Notify done
    pc,             \* where the main goroutine is
    exitCause,      \* why the process ended before its time ("" while it has not)
    feed,           \* what the release feed answered in this cycle
    currentVersion, \* scanAndUpdate: currentVersion
    mask, start, finish, i,   \* scanNetwork: the range and the loop counter
    announced,      \* the N of "Starting scan of N ip addresses"
    tracker,        \* progress.Tracker: Total, value, done
    wg,             \* sync.WaitGroup: its counter
    mu,             \* sync.Mutex: 0 when unlocked, else the goroutine holding it
    foundDevices,   \* scanNetwork: foundDevices
    launched,       \* goroutines started by the loop so far
    probes,         \* the goroutines: position, argument i, answer, device, err
    knownDevices,   \* scanAndUpdate: knownDevices
    idx,            \* index of the range loops over knownDevices
    table,          \* the rendered table (Nil rows: none yet)
    rendered,       \* whether the table has been printed
    requests,       \* the requests updateDevices has sent, in order
    harness         \* input and result of a function applied on its own

vars == << cfg, main, pc, exitCause, feed, currentVersion, mask, start, finish, i,
           announced, tracker, wg, mu, foundDevices, launched, probes,
           knownDevices, idx, table, rendered, requests, harness >>

scanVars == << mask, start, finish, i, announced >>
updateVars == << knownDevices, idx, table, rendered, requests >>

Goroutines == 1..MaxLaunch

IdleProbe == [pc |-> "idle", i |-> 0, url |-> <<>>, resp |-> Refused, device |-> ZeroDevice,
              err |-> FALSE]
IdleHarness == [op |-> "none", devTriple |-> <<>>, refTriple |-> <<>>, fw |-> <<>>,
                tag |-> <<>>, applied |-> FALSE, device |-> ZeroDevice, err |-> FALSE,
                parsed |-> [version |-> <<>>, variant |-> <<>>, err |-> FALSE],
                otaurl |-> <<>>, url |-> <<>>, previous |-> <<>>]

\* the locals of scanAndUpdate and scanNetwork before the cycle has set them
InitCycle ==
    [ feed |-> NoFeed, currentVersion |-> NilVersion,
      tracker |-> [Total |-> 0, value |-> 0, done |-> FALSE],
      probes |-> [g \in Goroutines |-> IdleProbe] ]

InitCommon ==
    /\ main = [cycle |-> 1, slept |-> 0, notify |-> FALSE, fetches |-> 0]
    /\ pc = "start"
    /\ exitCause = ""
    /\ feed = InitCycle.feed
    /\ currentVersion = InitCycle.currentVersion
    /\ mask = 0 /\ start = 0 /\ finish = 0 /\ i = 0
    /\ announced = 0
    /\ tracker = InitCycle.tracker
    /\ wg = 0
    /\ mu = 0
    /\ foundDevices = <<>>
    /\ launched = 0
    /\ probes = InitCycle.probes
    /\ knownDevices = <<>>
    /\ idx = 0
    /\ table = <<>>
    /\ rendered = FALSE
    /\ requests = <<>>

Init ==
    /\ cfg \in [cidr : Cidrs, doupdates : BOOLEAN, password : Passwords,
                 otaurl : {DefaultOtaUrl}, daemon : BOOLEAN]
    /\ InitCommon
    /\ harness = IdleHarness

\* the process is alive: log.Fatal, os.Exit, an unrecovered panic and the return
\* of main end every goroutine
Running == pc \notin {"exit", "end"}

(***************************************************************************)
(* scanAndUpdate and scanNetwork: the main goroutine.                      *)
(***************************************************************************)
\* line 284: currentVersion := getCurrentTasmotaVersion(versionData)
ScanAndUpdate_GetVersion ==
    /\ pc = "start"
    /\ main' = [main EXCEPT !.fetches = @ + 1]
    /\ \E f \in Feeds :
        LET r == getCurrentTasmotaVersion(f)
        IN  /\ feed' = f
            /\ IF r.fatal
               THEN /\ pc' = "exit"
                    /\ exitCause' = "reference"
                    /\ UNCHANGED currentVersion
               ELSE /\ pc' = "scanNetwork"
                    /\ currentVersion' = r.version
                    /\ UNCHANGED exitCause
    /\ UNCHANGED << cfg, scanVars, tracker, wg, mu, foundDevices, launched, probes,
                    updateVars, harness >>

\* scanNetwork without line 100: foundDevices is kept from the call before
ScanNetwork_ParseCIDRKeepsDevices ==
    /\ pc = "scanNetwork"
    /\ LET net == ParseCIDR(cfg.cidr)
           m   == Uint32(net.Mask)
           s   == Uint32(net.IP)
           f   == BitOr(BitAnd(s, m, AddrBits), BitXor(m, MaxUint32, AddrBits), AddrBits)
       IN  IF net.err
           THEN /\ pc' = "exit"
                /\ exitCause' = "cidr"
                /\ UNCHANGED << scanVars, tracker, foundDevices >>
           ELSE /\ mask' = m
                /\ start' = s
                /\ finish' = f
                /\ announced' = (f - s) % (MaxUint32 + 1)
                /\ tracker' = [Total |-> (f - s) % (MaxUint32 + 1), value |-> 0, done |-> FALSE]
                /\ UNCHANGED foundDevices
                /\ i' = s
                /\ pc' = "launch"
                /\ UNCHANGED exitCause
    /\ UNCHANGED << cfg, main, feed, currentVersion, wg, mu, launched, probes, updateVars, harness >>

\* lines 76-101: parse the range, announce it, set up the tracker
ScanNetwork_ParseCIDR ==
    /\ pc = "scanNetwork"
    /\ LET net == ParseCIDR(cfg.cidr)
           m   == Uint32(net.Mask)
           s   == Uint32(net.IP)
           f   == BitOr(BitAnd(s, m, AddrBits), BitXor(m, MaxUint32, AddrBits), AddrBits)
       IN  IF net.err
           THEN /\ pc' = "exit"
                /\ exitCause' = "cidr"
                /\ UNCHANGED << scanVars, tracker, foundDevices >>
           ELSE /\ mask' = m
                /\ start' = s
                /\ finish' = f
                /\ announced' = (f - s) % (MaxUint32 + 1)
                /\ tracker' = [Total |-> (f - s) % (MaxUint32 + 1), value |-> 0, done |-> FALSE]
                /\ foundDevices' = <<>>
                /\ i' = s
                /\ pc' = "launch"
                /\ UNCHANGED exitCause
    /\ UNCHANGED << cfg, main, feed, currentVersion, wg, mu, launched, probes, updateVars, harness >>

\* lines 103-105, 123: one turn of the loop: wg.Add(1); go func(i uint32){...}(i); i++
ScanNetwork_Launch ==
    /\ pc = "launch"
    /\ i <= finish
    /\ launched < MaxLaunch
    /\ wg' = wg + 1
    /\ launched' = launched + 1
    /\ probes' = [probes EXCEPT ![launched + 1] = [IdleProbe EXCEPT !.pc = "probe", !.i = i]]
    /\ i' = (i + 1) % (MaxUint32 + 1)
    /\ UNCHANGED << cfg, main, pc, exitCause, feed, currentVersion, mask, start, finish, announced,
                    tracker, mu, foundDevices, updateVars, harness >>

\* line 103: i <= finish is false
ScanNetwork_LoopEnd ==
    /\ pc = "launch"
    /\ ~(i <= finish)
    /\ pc' = "wait"
    /\ UNCHANGED << cfg, main, exitCause, feed, currentVersion, scanVars, tracker, wg, mu,
                    foundDevices, launched, probes, updateVars, harness >>

\* wg.Wait() that does not wait
WaitGroupNoWait == TRUE

\* wg.Wait() returns when the counter is zero
WaitGroupWait == wg = 0

\* lines 125-127 and 285: wg.Wait(); tracker.MarkAsDone(); return foundDevices
ScanNetwork_Return ==
    /\ pc = "wait"
    /\ WaitGroupWait
    /\ tracker' = [tracker EXCEPT !.done = TRUE]
    /\ knownDevices' = foundDevices
    /\ pc' = "sort"
    /\ UNCHANGED << cfg, main, exitCause, feed, currentVersion, scanVars, wg, mu, foundDevices,
                    launched, probes, idx, table, rendered, requests, harness >>

\* lines 288-290: sort.Slice(knownDevices, ...); foundDevices keeps the order of
\* arrival (the program does not read it again)
ScanAndUpdate_Sort ==
    /\ pc = "sort"
    /\ knownDevices' = SortByIP(knownDevices)
    /\ idx' = 1
    /\ pc' = "check"
    /\ UNCHANGED << cfg, main, exitCause, feed, currentVersion, scanVars, tracker, wg, mu,
                    foundDevices, launched, probes, table, rendered, requests, harness >>

\* the loop over knownDevices with log.Fatal in place of continue
ScanAndUpdate_CheckFatal ==
    /\ pc = "check"
    /\ idx <= Len(knownDevices)
    /\ LET r == checkDeviceVersion(currentVersion, knownDevices[idx])
       IN  IF r.panic \/ r.err
           THEN /\ pc' = "exit"
                /\ exitCause' = IF r.err THEN "device version" ELSE "nil reference"
                /\ UNCHANGED << knownDevices, idx >>
           ELSE /\ knownDevices' = [knownDevices EXCEPT ![idx] = r.device]
                /\ idx' = idx + 1
                /\ UNCHANGED << pc, exitCause >>
    /\ UNCHANGED << cfg, main, feed, currentVersion, scanVars, tracker, wg, mu, foundDevices,
                    launched, probes, table, rendered, requests, harness >>

\* the loop over knownDevices with getCurrentTasmotaVersion() called in every
\* turn, in place of the one call before the scan
ScanAndUpdate_CheckFetches ==
    /\ pc = "check"
    /\ idx <= Len(knownDevices)
    /\ main' = [main EXCEPT !.fetches = @ + 1]
    /\ \E f \in Feeds :
        LET v == getCurrentTasmotaVersion(f)
            r == checkDeviceVersion(v.version, knownDevices[idx])
        IN  /\ feed' = f
            /\ IF v.fatal
               THEN /\ pc' = "exit"
                    /\ exitCause' = "reference"
                    /\ UNCHANGED << currentVersion, knownDevices, idx >>
               ELSE IF r.panic
               THEN /\ pc' = "exit"
                    /\ exitCause' = "nil reference"
                    /\ currentVersion' = v.version
                    /\ UNCHANGED << knownDevices, idx >>
               ELSE /\ currentVersion' = v.version
                    /\ knownDevices' = IF r.err THEN knownDevices
                                        ELSE [knownDevices EXCEPT ![idx] = r.device]
                    /\ idx' = idx + 1
                    /\ UNCHANGED << pc, exitCause >>
    /\ UNCHANGED << cfg, scanVars, tracker, wg, mu, foundDevices,
                    launched, probes, table, rendered, requests, harness >>

\* lines 293-299: one turn of the loop over knownDevices
ScanAndUpdate_Check ==
    /\ pc = "check"
    /\ idx <= Len(knownDevices)
    /\ LET r == checkDeviceVersion(currentVersion, knownDevices[idx])
       IN  IF r.panic
           THEN /\ pc' = "exit"
                /\ exitCause' = "nil reference"
                /\ UNCHANGED << knownDevices, idx >>
           ELSE /\ knownDevices' = IF r.err THEN knownDevices
                                   ELSE [knownDevices EXCEPT ![idx] = r.device]
                /\ idx' = idx + 1
                /\ UNCHANGED << pc, exitCause >>
    /\ UNCHANGED << cfg, main, feed, currentVersion, scanVars, tracker, wg, mu, foundDevices,
                    launched, probes, table, rendered, requests, harness >>

\* line 302: log.Println(renderDeviceTable(knownDevices)), after the loop
ScanAndUpdate_Render ==
    /\ pc = "check"
    /\ idx > Len(knownDevices)
    /\ table' = renderDeviceTable(knownDevices)
    /\ rendered' = TRUE
    /\ pc' = "dispatch"
    /\ UNCHANGED << cfg, main, exitCause, feed, currentVersion, scanVars, tracker, wg, mu,
                    foundDevices, launched, probes, knownDevices, idx, requests, harness >>

\* updateDevices called whatever doupdates says
ScanAndUpdate_DispatchAlways ==
    /\ pc = "dispatch"
    /\ pc' = "update" /\ idx' = 1
    /\ UNCHANGED << cfg, main, exitCause, feed, currentVersion, scanVars, tracker, wg, mu,
                    foundDevices, launched, probes, knownDevices, table, rendered,
                    requests, harness >>

\* lines 305-309: if viper.GetBool("doupdates") { updateDevices(knownDevices) }
ScanAndUpdate_Dispatch ==
    /\ pc = "dispatch"
    /\ IF cfg.doupdates
       THEN pc' = "update" /\ idx' = 1
       ELSE pc' = "done" /\ UNCHANGED idx
    /\ UNCHANGED << cfg, main, exitCause, feed, currentVersion, scanVars, tracker, wg, mu,
                    foundDevices, launched, probes, knownDevices, table, rendered,
                    requests, harness >>

(***************************************************************************)
(* updateDevices.                                                          *)
(***************************************************************************)
\* one getURL of updateDevices: the request is sent; the result is dropped, but
\* a body that cannot be read panics
UpdateRequest(cmnd, url, next, nextIdx) ==
    \E resp \in UpdateResponses :
        /\ requests' = Append(requests, [IP |-> knownDevices[idx].IP, cmnd |-> cmnd,
                                         url |-> url, resp |-> resp])
        /\ IF getURL(resp).panic
           THEN pc' = "exit" /\ exitCause' = "update body" /\ UNCHANGED idx
           ELSE pc' = next /\ idx' = nextIdx /\ UNCHANGED exitCause

\* the loop of updateDevices without the test of line 263: a device that is not
\* outdated is sent the requests as well
UpdateDevices_NoOutdatedTest ==
    /\ pc = "update"
    /\ idx <= Len(knownDevices)
    /\ ~knownDevices[idx].Outdated
    /\ UpdateRequest("OtaUrl",
                     otaUrlRequestURL(knownDevices[idx], getPasswordQuery(cfg.password),
                                      cfg.otaurl),
                     "upgrade", idx)
    /\ UNCHANGED << cfg, main, feed, currentVersion, scanVars, tracker, wg, mu, foundDevices,
                    launched, probes, knownDevices, table, rendered, harness >>

\* lines 262-263: a device that is not outdated is passed over
UpdateDevices_Skip ==
    /\ pc = "update"
    /\ idx <= Len(knownDevices)
    /\ ~knownDevices[idx].Outdated
    /\ idx' = idx + 1
    /\ UNCHANGED << cfg, main, pc, exitCause, feed, currentVersion, scanVars, tracker, wg, mu,
                    foundDevices, launched, probes, knownDevices, table, rendered,
                    requests, harness >>

\* updateDevices with the error of the OtaUrl request checked: when getURL
\* returns an error the loop goes on to the next device without the Upgrade
UpdateDevices_OtaUrlChecked ==
    /\ pc = "update"
    /\ idx <= Len(knownDevices)
    /\ knownDevices[idx].Outdated
    /\ \E resp \in UpdateResponses :
        /\ requests' = Append(requests,
                              [IP |-> knownDevices[idx].IP, cmnd |-> "OtaUrl",
                               url |-> otaUrlRequestURL(knownDevices[idx],
                                                        getPasswordQuery(cfg.password),
                                                        cfg.otaurl),
                               resp |-> resp])
        /\ IF getURL(resp).panic
           THEN pc' = "exit" /\ exitCause' = "update body" /\ UNCHANGED idx
           ELSE IF getURL(resp).err
           THEN idx' = idx + 1 /\ UNCHANGED << pc, exitCause >>
           ELSE pc' = "upgrade" /\ UNCHANGED << idx, exitCause >>
    /\ UNCHANGED << cfg, main, feed, currentVersion, scanVars, tracker, wg, mu, foundDevices,
                    launched, probes, knownDevices, table, rendered, harness >>

\* lines 264-274: set the ota url
UpdateDevices_OtaUrl ==
    /\ pc = "update"
    /\ idx <= Len(knownDevices)
    /\ knownDevices[idx].Outdated
    /\ UpdateRequest("OtaUrl",
                     otaUrlRequestURL(knownDevices[idx], getPasswordQuery(cfg.password),
                                      cfg.otaurl),
                     "upgrade", idx)
    /\ UNCHANGED << cfg, main, feed, currentVersion, scanVars, tracker, wg, mu, foundDevices,
                    launched, probes, knownDevices, table, rendered, harness >>

\* lines 276-277: trigger an ota upgrade
UpdateDevices_Upgrade ==
    /\ pc = "upgrade"
    /\ UpdateRequest("Upgrade",
                     upgradeRequestURL(knownDevices[idx], getPasswordQuery(cfg.password)),
                     "update", idx + 1)
    /\ UNCHANGED << cfg, main, feed, currentVersion, scanVars, tracker, wg, mu, foundDevices,
                    launched, probes, knownDevices, table, rendered, harness >>

\* line 279-280: the loop is over
UpdateDevices_Return ==
    /\ pc = "update"
    /\ idx > Len(knownDevices)
    /\ pc' = "done"
    /\ UNCHANGED << cfg, main, exitCause, feed, currentVersion, scanVars, tracker, wg, mu,
                    foundDevices, launched, probes, updateVars, harness >>

(***************************************************************************)
(* The goroutine of one address (lines 105-123).                           *)
(***************************************************************************)
\* lines 107-112: device, err := getDeviceData(ip), which sends the status
\* query to the url of line 149
Probe_GetDeviceData(g) ==
    /\ Running
    /\ probes[g].pc = "probe"
    /\ \E resp \in DeviceResponses :
        LET ip  == PutUint32(probes[g].i)
            url == buildDeviceURL(IPString(ip), cfg.password)
            r   == getDeviceData(ip, resp)
        IN  IF r.panic
            THEN /\ pc' = "exit"
                 /\ exitCause' = "probe body"
                 /\ probes' = [probes EXCEPT ![g].resp = resp, ![g].url = url]
            ELSE /\ probes' = [probes EXCEPT ![g].resp = resp,
                                             ![g].url = url,
                                             ![g].device = r.device,
                                             ![g].err = r.err,
                                             ![g].pc = IF r.err THEN "increment" ELSE "lock"]
                 /\ UNCHANGED << pc, exitCause >>
    /\ UNCHANGED << cfg, main, feed, currentVersion, scanVars, tracker, wg, mu, foundDevices,
                    launched, updateVars, harness >>

\* mu.Lock() that does not block
MutexLockNoWait(g) == mu' = g

\* mu.Lock() by goroutine g: blocks while the mutex is held
MutexLock(g) == mu = 0 /\ mu' = g

\* line 114: mu.Lock()
Probe_Lock(g) ==
    /\ Running
    /\ probes[g].pc = "lock"
    /\ MutexLock(g)
    /\ probes' = [probes EXCEPT ![g].pc = "append"]
    /\ UNCHANGED << cfg, main, pc, exitCause, feed, currentVersion, scanVars, tracker, wg,
                    foundDevices, launched, updateVars, harness >>

\* line 116: foundDevices = append(foundDevices, device)
Probe_Append(g) ==
    /\ Running
    /\ probes[g].pc = "append"
    /\ foundDevices' = Append(foundDevices, probes[g].device)
    /\ probes' = [probes EXCEPT ![g].pc = "unlock"]
    /\ UNCHANGED << cfg, main, pc, exitCause, feed, currentVersion, scanVars, tracker, wg, mu,
                    launched, updateVars, harness >>

\* line 117: mu.Unlock()
Probe_Unlock(g) ==
    /\ Running
    /\ probes[g].pc = "unlock"
    /\ mu' = 0
    /\ probes' = [probes EXCEPT ![g].pc = "increment"]
    /\ UNCHANGED << cfg, main, pc, exitCause, feed, currentVersion, scanVars, tracker, wg,
                    foundDevices, launched, updateVars, harness >>

\* lines 120-123 and 106: tracker.Increment(1); pb.Render(); return, which runs
\* the deferred wg.Done()
Probe_Increment(g) ==
    /\ Running
    /\ probes[g].pc = "increment"
    /\ tracker' = [tracker EXCEPT !.value = @ + 1]
    /\ wg' = wg - 1
    /\ probes' = [probes EXCEPT ![g].pc = "done"]
    /\ UNCHANGED << cfg, main, pc, exitCause, feed, currentVersion, scanVars, mu, foundDevices,
                    launched, updateVars, harness >>

Probe(g) ==
    \/ Probe_GetDeviceData(g)
    \/ Probe_Lock(g)
    \/ Probe_Append(g)
    \/ Probe_Unlock(g)
    \/ Probe_Increment(g)

(***************************************************************************)
(* main (lines 324-351): one cycle, or a cycle every 24 hours.             *)
(***************************************************************************)
\* lines 348-351: the daemon is off; scanAndUpdate has returned, main returns
Main_Return ==
    /\ pc = "done"
    /\ ~cfg.daemon
    /\ pc' = "end"
    /\ UNCHANGED << cfg, main, exitCause, feed, currentVersion, scanVars, tracker, wg, mu,
                    foundDevices, launched, probes, updateVars, harness >>

\* lines 327-340 and 344-346: the daemon is on; scanAndUpdate has returned, the
\* next scan time is logged and (after the first cycle) the signals are
\* subscribed to
Main_NextScan ==
    /\ pc = "done"
    /\ cfg.daemon
    /\ pc' = "sleep"
    /\ main' = [main EXCEPT !.notify = TRUE]
    /\ UNCHANGED << cfg, exitCause, feed, currentVersion, scanVars, tracker, wg, mu,
                    foundDevices, launched, probes, updateVars, harness >>

\* time.Sleep that returns at once
SleepLeftOut(hours) == 0

\* time.Sleep(d): the hours that have passed when it returns
Sleep(hours) == hours

\* lines 342-344: time.Sleep(24 * time.Hour); scanAndUpdate() is called again,
\* with its locals new; foundDevices is what the last scanNetwork left until
\* the next one makes its own (line 100)
Main_SleepStep ==
    /\ pc = "sleep"
    /\ main.cycle < MaxCycles
    /\ main' = [main EXCEPT !.cycle = @ + 1, !.slept = @ + Sleep(24)]
    /\ pc' = "start"
    /\ feed' = InitCycle.feed
    /\ currentVersion' = InitCycle.currentVersion
    /\ mask' = 0 /\ start' = 0 /\ finish' = 0 /\ i' = 0
    /\ announced' = 0
    /\ tracker' = InitCycle.tracker
    /\ launched' = 0
    /\ probes' = InitCycle.probes
    /\ knownDevices' = <<>>
    /\ idx' = 0
    /\ table' = <<>>
    /\ rendered' = FALSE
    /\ requests' = <<>>
    /\ UNCHANGED << cfg, exitCause, wg, mu, foundDevices >>

Main_Sleep == Main_SleepStep /\ UNCHANGED harness

\* the same step, with the table of the cycle that ends kept for comparison
Main_SleepObserved == Main_SleepStep /\ harness' = [harness EXCEPT !.previous = table]

\* lines 334-340: the goroutine that waits for SIGTERM or SIGINT and calls
\* os.Exit(0)
Main_Signal ==
    /\ Running
    /\ main.notify
    /\ pc' = "exit"
    /\ exitCause' = "signal"
    /\ UNCHANGED << cfg, main, feed, currentVersion, scanVars, tracker, wg, mu,
                    foundDevices, launched, probes, updateVars, harness >>

Next ==
    \/ ScanAndUpdate_GetVersion
    \/ ScanNetwork_ParseCIDR
    \/ ScanNetwork_Launch
    \/ ScanNetwork_LoopEnd
    \/ ScanNetwork_Return
    \/ ScanAndUpdate_Sort
    \/ ScanAndUpdate_Check
    \/ ScanAndUpdate_Render
    \/ ScanAndUpdate_Dispatch
    \/ UpdateDevices_Skip
    \/ UpdateDevices_OtaUrl
    \/ UpdateDevices_Upgrade
    \/ UpdateDevices_Return
    \/ \E g \in Goroutines : Probe(g)
    \/ Main_Return
    \/ Main_NextScan
    \/ Main_Sleep
    \/ Main_Signal

Spec == Init /\ [][Next]_vars

(***************************************************************************)
(* checkDeviceVersion applied on its own: a device firmware version and a  *)
(* release tag are drawn, the reference is obtained as scanAndUpdate       *)
(* obtains it, and the device is checked against it.                       *)
(***************************************************************************)
\* the numbers the version components are drawn from
SegValues == {0, 1, 9, 10}
Triples == {<<a, b, c>> : a \in SegValues, b \in SegValues, c \in SegValues}

\* "A.B.C"
FormatVersion(t) == Itoa(t[1]) \o <<".">> \o Itoa(t[2]) \o <<".">> \o Itoa(t[3])

\* firmware versions that are not of the shape A.B.C
OddVersions ==
    { <<>>, <<"x">>, <<"1">>, <<"1", ".", "0">>, <<"1", ".", ".", "0">>,
      <<"1", ".", "0", ".">>, <<"v", "1", ".", "0", ".", "0">>,
      <<"1", ".", "0", ".", "0", "b">>, <<"9", ".", "1", ".", "0", ".", "1">> }

VersionHarness(t, fw, r) ==
    [IdleHarness EXCEPT !.op = "checkDeviceVersion", !.devTriple = t, !.fw = fw,
                        !.refTriple = r, !.tag = <<"v">> \o FormatVersion(r)]

InitVersion ==
    /\ cfg = [cidr |-> [ip |-> PutUint32(0), bits |-> AddrBits], doupdates |-> FALSE,
              password |-> <<>>, otaurl |-> DefaultOtaUrl, daemon |-> FALSE]
    /\ InitCommon
    /\ harness \in {VersionHarness(t, FormatVersion(t), r) : t \in Triples, r \in Triples}
                   \cup {VersionHarness(<<>>, fw, r) : fw \in OddVersions, r \in Triples}

CheckDeviceVersion_Apply ==
    /\ harness.op = "checkDeviceVersion"
    /\ ~harness.applied
    /\ LET v == getCurrentTasmotaVersion(FeedTag(harness.tag)).version
           r == checkDeviceVersion(v, [ZeroDevice EXCEPT !.FirmwareVersion = harness.fw])
       IN  harness' = [harness EXCEPT !.applied = TRUE, !.device = r.device, !.err = r.err]
    /\ UNCHANGED << cfg, main, pc, exitCause, feed, currentVersion, scanVars, tracker, wg, mu,
                    foundDevices, launched, probes, updateVars >>

NextVersion == CheckDeviceVersion_Apply

SpecVersion == InitVersion /\ [][NextVersion]_vars

(***************************************************************************)
(* parseFirmwareVersion and getDeviceData applied on their own: a firmware *)
(* string is drawn and parsed, and the answer of a device that reports it  *)
(* is turned into a Device.                                                *)
(***************************************************************************)
\* what may stand before the parentheses: the versions A.B.C and other texts
VersionTexts == {FormatVersion(t) : t \in Triples} \cup OddVersions

\* what may stand where the parenthesised variant belongs
VariantTexts ==
    { <<>>, <<"(", "t", "a", "s", "m", "o", "t", "a", ")">>, <<"(", "s", "e", "n", "s", "o", "r", "s", ")">>, <<"(", ")">>,
      <<"(", "t", "a", "s", "m", "o", "t", "a">>, <<"t", "a", "s", "m", "o", "t", "a", ")">>, <<"(", "a", ")", "(", "b", ")">> }

\* what may follow
TrailingTexts == { <<>>, <<"x">>, <<"(">>, <<")">> }

FirmwareStrings ==
    {pre \o mid \o post : pre \in VersionTexts, mid \in VariantTexts, post \in TrailingTexts}

InitParse ==
    /\ cfg = [cidr |-> [ip |-> PutUint32(0), bits |-> AddrBits], doupdates |-> FALSE,
              password |-> <<>>, otaurl |-> DefaultOtaUrl, daemon |-> FALSE]
    /\ InitCommon
    /\ harness \in {[IdleHarness EXCEPT !.op = "parseFirmwareVersion", !.fw = fw] :
                        fw \in FirmwareStrings}

ParseFirmwareVersion_Apply ==
    /\ harness.op = "parseFirmwareVersion"
    /\ ~harness.applied
    /\ LET r == getDeviceData(PutUint32(0), Http(200, "A", harness.fw))
       IN  harness' = [harness EXCEPT !.applied = TRUE,
                                      !.parsed = parseFirmwareVersion(harness.fw),
                                      !.device = r.device,
                                      !.err = r.err]
    /\ UNCHANGED << cfg, main, pc, exitCause, feed, currentVersion, scanVars, tracker, wg,
                    mu, foundDevices, launched, probes, updateVars >>

NextParse == ParseFirmwareVersion_Apply

SpecParse == InitParse /\ [][NextParse]_vars

(***************************************************************************)
(* The file name of updateDevices computed on its own: an otaurl and a     *)
(* device's FirmwareType are drawn.                                        *)
(***************************************************************************)
\* "http://ota.example.com/tasmota"
ExampleOtaBase ==
    <<"h", "t", "t", "p", ":", "/", "/", "o", "t", "a", ".", "e", "x", "a", "m", "p", "l", "e", ".", "c", "o", "m", "/", "t", "a", "s", "m", "o", "t", "a">>
\* "http://ota.example.com/"
ExampleOtaUrl ==
    <<"h", "t", "t", "p", ":", "/", "/", "o", "t", "a", ".", "e", "x", "a", "m", "p", "l", "e", ".", "c", "o", "m", "/">>
\* "sensors"
sSensors == <<"s", "e", "n", "s", "o", "r", "s">>

\* TASMOGO_OTAURL
OtaUrls == { DefaultOtaUrl, ExampleOtaUrl, ExampleOtaBase }

\* the characters the drawn variants are made of, and their length
VariantChars == {"a", "t", "-"}
VariantLengths == 0..3

\* FirmwareType: the default build, a named build, and every short text
Variants ==
    { sTasmota, sSensors, sTasmota \o <<"-">> \o sSensors }
        \cup UNION {[1..n -> VariantChars] : n \in VariantLengths}

InitOta ==
    /\ cfg = [cidr |-> [ip |-> PutUint32(0), bits |-> AddrBits], doupdates |-> TRUE,
              password |-> <<>>, otaurl |-> DefaultOtaUrl, daemon |-> FALSE]
    /\ InitCommon
    /\ harness \in {[IdleHarness EXCEPT !.op = "otaURL", !.otaurl = u,
                                         !.device = [ZeroDevice EXCEPT !.FirmwareType = v,
                                                                       !.Outdated = TRUE]] :
                        u \in OtaUrls, v \in Variants}

OtaURL_Apply ==
    /\ harness.op = "otaURL"
    /\ ~harness.applied
    /\ harness' = [harness EXCEPT !.applied = TRUE,
                                  !.url = otaURL(harness.otaurl, harness.device)]
    /\ UNCHANGED << cfg, main, pc, exitCause, feed, currentVersion, scanVars, tracker, wg,
                    mu, foundDevices, launched, probes, updateVars >>

NextOta == OtaURL_Apply

SpecOta == InitOta /\ [][NextOta]_vars

(***************************************************************************)
(* The daemon on one range of two addresses, the table of each cycle kept  *)
(* until the next one ends.                                                *)
(***************************************************************************)
InitCarry ==
    /\ cfg \in [cidr : {[ip |-> PutUint32(0), bits |-> AddrBits - MaxHostBits]},
                 doupdates : BOOLEAN, password : {<<>>}, otaurl : {DefaultOtaUrl},
                 daemon : {TRUE}]
    /\ InitCommon
    /\ harness = [IdleHarness EXCEPT !.op = "daemon"]

NextCarry ==
    \/ ScanAndUpdate_GetVersion
    \/ ScanNetwork_ParseCIDR
    \/ ScanNetwork_Launch
    \/ ScanNetwork_LoopEnd
    \/ ScanNetwork_Return
    \/ ScanAndUpdate_Sort
    \/ ScanAndUpdate_Check
    \/ ScanAndUpdate_Render
    \/ ScanAndUpdate_Dispatch
    \/ UpdateDevices_Skip
    \/ UpdateDevices_OtaUrl
    \/ UpdateDevices_Upgrade
    \/ UpdateDevices_Return
    \/ \E g \in Goroutines : Probe(g)
    \/ Main_NextScan
    \/ Main_SleepObserved
    \/ Main_Signal

SpecCarry == InitCarry /\ [][NextCarry]_vars

(***************************************************************************)
(* Notions the properties are stated in.                                   *)
(***************************************************************************)
Launched == {g \in Goroutines : probes[g].pc # "idle"}
\* the goroutine has its answer
Probed(g) == probes[g].pc \notin {"idle", "probe"}
\* the address the goroutine probes
AddressOf(g) == PutUint32(probes[g].i)

\* a firmware string of the shape "...(...)": an opening parenthesis with a
\* closing one somewhere after it
HasShape(fw) == \E a, b \in 1..Len(fw) : a < b /\ fw[a] = "(" /\ fw[b] = ")"
\* the answer of a valid responder: a body arrived and its version has the shape
ValidAnswer(resp) == resp.kind = "http" /\ HasShape(resp.body.Version)

\* os.Exit(0) of the signal goroutine has ended the process
StoppedBySignal == pc = "exit" /\ exitCause = "signal"

\* the step stays within one scan cycle
SameCycle == main'.cycle = main.cycle

\* scanNetwork has returned (tracker.MarkAsDone() precedes the return)
Returned == tracker.done
\* the list has been sorted (the sort sets the loop index)
Sorted == idx >= 1

SameButOutdated(d, e) == [d EXCEPT !.Outdated = FALSE] = [e EXCEPT !.Outdated = FALSE]
Ascending(devices) ==
    \A k \in 1..(Len(devices) - 1) : ip2int(devices[k].IP) < ip2int(devices[k + 1].IP)

\* net.IP.To16: the 16-byte form of a 4-byte address
To16(ip) == [k \in 1..10 |-> 0] \o <<OctetBase - 1, OctetBase - 1>> \o ip

(***************************************************************************)
(* The properties.                                                         *)
(***************************************************************************)
\* C1: once the list is sorted it holds exactly one Device for each address
\* whose answer was that of a valid responder and none for another address,
\* and it is the list fixed by the addresses and their answers alone: the
\* devices of the valid answers in ascending order of address, whatever the
\* order in which the probes completed.
C1_ScanResultIsTheValidResponders ==
    Sorted =>
        /\ \A g \in Launched :
              ValidAnswer(probes[g].resp) <=>
                 Cardinality({k \in 1..Len(knownDevices) : knownDevices[k].IP = AddressOf(g)}) = 1
        /\ \A k \in 1..Len(knownDevices) :
              \E g \in Launched :
                 /\ ValidAnswer(probes[g].resp)
                 /\ knownDevices[k].IP = AddressOf(g)
                 /\ knownDevices[k].Name = probes[g].resp.body.DeviceName
        /\ Len(knownDevices) = Cardinality({g \in Launched : ValidAnswer(probes[g].resp)})
        /\ Ascending(knownDevices)

\* C1 witness: a sorted list of one device from a range of two addresses, the
\* other address having failed
C1_Witness ==
    /\ Sorted
    /\ launched = 2
    /\ Len(knownDevices) = 1
    /\ \E g \in Launched : ~ValidAnswer(probes[g].resp)

\* C2: scanNetwork has returned only when every goroutine it launched is done,
\* and foundDevices does not change after the return.
C2_ReturnAfterAllProbes ==
    /\ [](Returned => \A g \in Goroutines : probes[g].pc \in {"idle", "done"})
    /\ [](Returned => wg = 0 /\ Launched # {})
    /\ [][(Returned /\ SameCycle) => foundDevices' = foundDevices]_vars

\* C2 witness: scanNetwork has returned from a scan of two addresses, one of
\* which gave a device and one of which failed
C2_Witness ==
    /\ Returned
    /\ launched = 2
    /\ Len(foundDevices) = 1
    /\ \A g \in Launched : probes[g].pc = "done"

\* C3: at most one goroutine is between mu.Lock and mu.Unlock and it holds the
\* mutex; once scanNetwork has made it, foundDevices changes only by the
\* append of the goroutine in that region; and when scanNetwork returns, foundDevices holds one entry for each
\* goroutine that had a device: no append is lost.
C3_AppendsAreExclusive ==
    /\ [](Cardinality({g \in Goroutines : probes[g].pc \in {"append", "unlock"}}) <= 1)
    /\ [](\A g \in Goroutines : probes[g].pc \in {"append", "unlock"} => mu = g)
    /\ [][(foundDevices' # foundDevices /\ pc # "scanNetwork") =>
            \E g \in Goroutines :
               /\ probes[g].pc = "append" /\ mu = g
               /\ foundDevices' = Append(foundDevices, probes[g].device)
               /\ ~Returned]_vars
    /\ [](Returned =>
            /\ Len(foundDevices) = Cardinality({g \in Launched : ~probes[g].err})
            /\ \A g \in Launched : ~probes[g].err =>
                  \E k \in 1..Len(foundDevices) : foundDevices[k] = probes[g].device)

\* C3 witness: one goroutine is in the region while another waits for the mutex
C3_Witness ==
    \E g, h \in Goroutines :
        g # h /\ probes[g].pc = "append" /\ mu = g /\ probes[h].pc = "lock"

\* C4: scanNetwork launches one probe for each address of [start, finish] and
\* for no other address, no address twice, 2^(32-p) probes for prefix length p,
\* the first at the network address and the last at the broadcast address.
C4_OneProbePerAddressOfTheRange ==
    /\ \A g \in Launched : start <= probes[g].i /\ probes[g].i <= finish
    /\ \A g, h \in Launched : g # h => probes[g].i # probes[h].i
    /\ Launched # {} => probes[1].i = start
    /\ launched <= Pow2(AddrBits - cfg.cidr.bits)
    /\ pc \notin {"start", "scanNetwork", "launch", "exit"} =>
          /\ launched = Pow2(AddrBits - cfg.cidr.bits)
          /\ probes[launched].i = finish

\* C5: the list is in strictly ascending order of ip2int, which is the integer
\* the address was enumerated with for the 4-byte and the 16-byte form alike,
\* from the sort on; the sort comes after all probes; before it no device is
\* reconciled, displayed or updated; the rows of the table and the update
\* requests follow the order of the list.
C5_SortedBeforeAnyProcessing ==
    /\ Sorted =>
          /\ Returned
          /\ \A g \in Goroutines : probes[g].pc \in {"idle", "done"}
          /\ Ascending(knownDevices)
          /\ \A k \in 1..Len(knownDevices) :
                /\ ip2int(To16(knownDevices[k].IP)) = ip2int(knownDevices[k].IP)
                /\ \E g \in Launched : probes[g].i = ip2int(knownDevices[k].IP)
    /\ ~Sorted =>
          /\ ~rendered
          /\ requests = <<>>
          /\ \A k \in 1..Len(knownDevices) : ~knownDevices[k].Outdated
    /\ rendered =>
          /\ Len(table) = Len(knownDevices)
          /\ \A k \in 1..Len(table) : table[k].IP = knownDevices[k].IP
    /\ \A k \in 1..(Len(requests) - 1) : ip2int(requests[k].IP) <= ip2int(requests[k + 1].IP)
    /\ pc = "check" =>
          \A k \in 1..Len(knownDevices) : knownDevices[k].Outdated => k < idx

\* C5 witness: two devices arrived in descending order of address and the list
\* under reconciliation is in ascending order
C5_Witness ==
    /\ pc = "check"
    /\ Len(knownDevices) = 2
    /\ ip2int(foundDevices[1].IP) > ip2int(foundDevices[2].IP)

\* the order of (major, minor, patch), numeric at each level
TripleLess(a, b) ==
    \/ a[1] < b[1]
    \/ a[1] = b[1] /\ a[2] < b[2]
    \/ a[1] = b[1] /\ a[2] = b[2] /\ a[3] < b[3]

\* C6: for a device whose firmwareVersion is "A.B.C" and a reference "X.Y.Z",
\* checkDeviceVersion returns no error and the device with Outdated = TRUE
\* exactly when (A, B, C) is less than (X, Y, Z) in the numeric order of major,
\* then minor, then patch; nothing else of the device is changed.
C6_OutdatedIffStrictlyLess ==
    (harness.applied /\ harness.devTriple # <<>>) =>
        /\ ~harness.err
        /\ harness.device.Outdated <=> TripleLess(harness.devTriple, harness.refTriple)
        /\ harness.device = [ZeroDevice EXCEPT !.FirmwareVersion = harness.fw,
                                               !.Outdated = harness.device.Outdated]

\* C6 witness: 9.1.0 against the reference 10.0.0 came out outdated
C6_Witness ==
    /\ harness.applied
    /\ harness.devTriple = <<9, 1, 0>>
    /\ harness.refTriple = <<10, 0, 0>>
    /\ harness.device.Outdated

\* C7: a device whose firmwareVersion version.NewVersion rejects stays in the
\* list with Outdated = FALSE and the loop goes on to the next device; the
\* table shows every device of the scan, each other device is flagged as its
\* version compares to the reference, and with updates enabled every flagged
\* device gets its requests.  (A signal may stop the daemon at any step.)
C7_UnparsableDeviceIsSkipped ==
    /\ [][(pc = "check" /\ idx <= Len(knownDevices)
             /\ NewVersion(knownDevices[idx].FirmwareVersion).isNil)
          => \/ pc' = "check" /\ idx' = idx + 1 /\ knownDevices' = knownDevices
             \/ StoppedBySignal']_vars
    /\ [](rendered =>
            /\ Len(knownDevices) = Len(foundDevices)
            /\ Len(table) = Len(knownDevices)
            /\ \A k \in 1..Len(knownDevices) :
                  LET d == knownDevices[k]
                      v == NewVersion(d.FirmwareVersion)
                  IN  /\ \E j \in 1..Len(foundDevices) : SameButOutdated(d, foundDevices[j])
                      /\ v.isNil => ~d.Outdated
                      /\ ~v.isNil => (d.Outdated <=> LessThan(v, currentVersion))
                      /\ table[k].outdated = IF d.Outdated THEN "outdated" ELSE "")
    /\ []((pc = "done" /\ cfg.doupdates) =>
            \A k \in 1..Len(knownDevices) :
               knownDevices[k].Outdated =>
                  \E a, b \in 1..Len(requests) :
                     /\ a < b
                     /\ requests[a].IP = knownDevices[k].IP /\ requests[a].cmnd = "OtaUrl"
                     /\ requests[b].IP = knownDevices[k].IP /\ requests[b].cmnd = "Upgrade")

\* C7 witness: the first device of the list has no version, the second was
\* flagged and updated after it
C7_Witness ==
    /\ pc = "done"
    /\ cfg.doupdates
    /\ Len(knownDevices) = 2
    /\ NewVersion(knownDevices[1].FirmwareVersion).isNil
    /\ ~knownDevices[1].Outdated
    /\ knownDevices[2].Outdated
    /\ Len(requests) = 2
    /\ requests[1].IP = knownDevices[2].IP

\* the feed gave no version: the fetch failed, or its tag is no version
ReferenceFailed ==
    \/ feed.kind = "error"
    \/ feed.kind = "tag" /\ NewVersion(DeleteFrontV(feed.tag)).isNil

\* C8: when the fetch of the latest tag fails or the tag is no version, the
\* process has ended for that reason with no probe launched, no device
\* reconciled, no table rendered and no update request sent.
C8_ReferenceFailureIsFatal ==
    ReferenceFailed =>
        /\ pc = "exit" /\ exitCause = "reference"
        /\ launched = 0 /\ Launched = {}
        /\ knownDevices = <<>>
        /\ idx = 0
        /\ ~rendered
        /\ requests = <<>>

\* C8 witness: the feed gave a tag that is no version and the process ended
C8_Witness ==
    /\ feed.kind = "tag"
    /\ ReferenceFailed
    /\ pc = "exit"

\* C9: the process ends before its time only for an invalid CIDR or a failure
\* of the reference version (or because a signal asked it to stop), never for
\* what a probe met.
C9_OnlyRangeAndReferenceAreFatal ==
    pc = "exit" => exitCause \in {"cidr", "reference", "signal"}

\* C10: a probe that got a response with a status outside 2xx has an error,
\* and its address is not in foundDevices, whatever the body.
C10_Non2xxGivesNoDevice ==
    \A g \in Goroutines :
        (Probed(g) /\ probes[g].resp.kind = "http"
            /\ ~(probes[g].resp.status \in 200..299)) =>
        /\ probes[g].err
        /\ \A k \in 1..Len(foundDevices) : foundDevices[k].IP # AddressOf(g)


\* a text of the shape A.B.C: three non-empty runs of digits joined by dots
IsDottedVersion(s) ==
    LET parts == SplitDots(s)
    IN  /\ Len(parts) = 3
        /\ \A k \in 1..3 :
              /\ Len(parts[k]) > 0
              /\ \A j \in 1..Len(parts[k]) : parts[k][j] \in DigitSet

\* the index of the opening parenthesis when fw is of the shape
\* "A.B.C(variant)", and 0 when it is not: the text ends with ")", what stands
\* before the first "(" is A.B.C, and the variant between the two is not
\* empty and has no parenthesis in it
ShapeOpen(fw) ==
    LET opens == {o \in 1..Len(fw) :
                    /\ fw[o] = "("
                    /\ fw[Len(fw)] = ")"
                    /\ IsDottedVersion(Take(fw, o - 1))
                    /\ o + 1 < Len(fw)
                    /\ \A j \in (o + 1)..(Len(fw) - 1) : fw[j] \notin {"(", ")"}}
    IN  IF opens = {} THEN 0 ELSE CHOOSE o \in opens : TRUE

\* C11: parseFirmwareVersion returns ("A.B.C", "variant") and no error for a
\* string of the shape "A.B.C(variant)"; for any other string it returns an
\* error with both results empty, and getDeviceData returns an error and no
\* Device for an address that reports such a string.
C11_ParsesExactlyTheShape ==
    (harness.op = "parseFirmwareVersion" /\ harness.applied) =>
        LET o == ShapeOpen(harness.fw)
        IN  IF o > 0
            THEN /\ harness.parsed = [version |-> Take(harness.fw, o - 1),
                                      variant |-> SubSeq(harness.fw, o + 1, Len(harness.fw) - 1),
                                      err     |-> FALSE]
                 /\ ~harness.err
            ELSE /\ harness.parsed = [version |-> <<>>, variant |-> <<>>, err |-> TRUE]
                 /\ harness.err
                 /\ harness.device = ZeroDevice


\* a Device with a 4-octet address and both firmware fields set
CompleteDevice(d) ==
    /\ Len(d.IP) = 4
    /\ \A k \in 1..4 : d.IP[k] \in 0..(OctetBase - 1)
    /\ d.FirmwareVersion # <<>>
    /\ d.FirmwareType # <<>>

\* C12: every Device of the result collection (foundDevices while the scan
\* runs, knownDevices after it) has a 4-octet address and a non-empty
\* FirmwareVersion and FirmwareType, and a probe adds a Device only when its
\* response supplied both.
C12_NoPartialDevice ==
    /\ \A k \in 1..Len(foundDevices) : CompleteDevice(foundDevices[k])
    /\ \A k \in 1..Len(knownDevices) : CompleteDevice(knownDevices[k])
    /\ \A g \in Goroutines :
          (Probed(g) /\ ~probes[g].err) => CompleteDevice(probes[g].device)


\* the requests updateDevices is to send for a list: for each outdated device,
\* in the order of the list, the OtaUrl request and then the Upgrade request
RECURSIVE ExpectedRequests(_)
ExpectedRequests(devices) ==
    IF Len(devices) = 0 THEN <<>>
    ELSE (IF devices[1].Outdated
          THEN << [IP |-> devices[1].IP, cmnd |-> "OtaUrl"],
                  [IP |-> devices[1].IP, cmnd |-> "Upgrade"] >>
          ELSE <<>>)
         \o ExpectedRequests(Tail(devices))

\* the requests sent so far: to which device, and which command
SentRequests == [k \in 1..Len(requests) |-> [IP |-> requests[k].IP, cmnd |-> requests[k].cmnd]]

IsPrefix(s, t) == Len(s) <= Len(t) /\ s = Take(t, Len(s))

\* C13: the requests sent are at every moment the first ones of the expected
\* sequence (outdated devices only, in list order, OtaUrl then Upgrade for one
\* device before anything for the next), between the two requests of a device
\* the loop is at that device, and when updateDevices has returned the whole
\* sequence has been sent: two requests for each outdated device and none for
\* any other.
C13_TwoRequestsPerOutdatedDevice ==
    /\ IsPrefix(SentRequests, ExpectedRequests(knownDevices))
    /\ pc = "upgrade" =>
          /\ knownDevices[idx].Outdated
          /\ requests[Len(requests)].cmnd = "OtaUrl"
          /\ requests[Len(requests)].IP = knownDevices[idx].IP
    /\ (pc = "done" /\ cfg.doupdates) => SentRequests = ExpectedRequests(knownDevices)
    /\ \A k \in 1..Len(requests) :
          \E j \in 1..Len(knownDevices) :
             knownDevices[j].IP = requests[k].IP /\ knownDevices[j].Outdated

\* C13 witness: updateDevices has returned from a list of two outdated
\* devices, with four requests sent
C13_Witness ==
    /\ pc = "done"
    /\ Len(knownDevices) = 2
    /\ knownDevices[1].Outdated /\ knownDevices[2].Outdated
    /\ Len(requests) = 4
    /\ requests[2].IP = knownDevices[1].IP
    /\ requests[3].IP = knownDevices[2].IP


\* the request met a failure: no answer, a body that broke off, a status
\* outside 2xx
FailedRequest(r) == r.resp.kind # "http" \/ r.resp.status \notin 200..299

\* C14: after an OtaUrl or Upgrade request has failed, the dispatcher is still
\* at work or has come to its end (unless a signal stopped the process): the
\* failure of a request never ends the run.
C14_FailedRequestDoesNotAbort ==
    (\E k \in 1..Len(requests) : FailedRequest(requests[k])) =>
        \/ pc \in {"update", "upgrade", "done", "sleep", "end"}
        \/ StoppedBySignal


\* the variant suffix of the file name: none for the default build "tasmota",
\* "-v" for any other variant v
VariantSuffix(v) == IF v = <<"t", "a", "s", "m", "o", "t", "a">> THEN <<>> ELSE <<"-">> \o v

EndsWith(s, t) == Len(t) <= Len(s) /\ Drop(s, Len(s) - Len(t)) = t

OtaApplied == harness.op = "otaURL" /\ harness.applied

\* C15: the OTA URL is the configured OTA base, then the variant suffix, then
\* ".bin": for the configured base "http://ota.example.com/tasmota" it is
\* "http://ota.example.com/tasmota-sensors.bin" for the variant "sensors" and
\* "http://ota.example.com/tasmota.bin" for the variant "tasmota".
C15_OtaUrlOfConfiguredBase ==
    OtaApplied =>
        /\ (harness.otaurl = ExampleOtaBase /\ harness.device.FirmwareType = sSensors) =>
              harness.url = <<"h", "t", "t", "p", ":", "/", "/", "o", "t", "a", ".", "e", "x", "a", "m", "p", "l", "e", ".", "c", "o", "m", "/", "t", "a", "s", "m", "o", "t", "a", "-", "s", "e", "n", "s", "o", "r", "s", ".", "b", "i", "n">>
        /\ (harness.otaurl = ExampleOtaBase /\ harness.device.FirmwareType = sTasmota) =>
              harness.url = <<"h", "t", "t", "p", ":", "/", "/", "o", "t", "a", ".", "e", "x", "a", "m", "p", "l", "e", ".", "c", "o", "m", "/", "t", "a", "s", "m", "o", "t", "a", ".", "b", "i", "n">>
        /\ EndsWith(harness.url, VariantSuffix(harness.device.FirmwareType)
                                    \o <<".", "b", "i", "n">>)

\* C15 as amended: the OTA URL is the configured otaurl, then "tasmota", then
\* the variant suffix, then ".bin": for the configured otaurl
\* "http://ota.example.com/" it is "http://ota.example.com/tasmota-sensors.bin"
\* for the variant "sensors" and "http://ota.example.com/tasmota.bin" for the
\* variant "tasmota".
C15_OtaUrlOfConfiguredUrl ==
    OtaApplied =>
        /\ (harness.otaurl = ExampleOtaUrl /\ harness.device.FirmwareType = sSensors) =>
              harness.url = <<"h", "t", "t", "p", ":", "/", "/", "o", "t", "a", ".", "e", "x", "a", "m", "p", "l", "e", ".", "c", "o", "m", "/", "t", "a", "s", "m", "o", "t", "a", "-", "s", "e", "n", "s", "o", "r", "s", ".", "b", "i", "n">>
        /\ (harness.otaurl = ExampleOtaUrl /\ harness.device.FirmwareType = sTasmota) =>
              harness.url = <<"h", "t", "t", "p", ":", "/", "/", "o", "t", "a", ".", "e", "x", "a", "m", "p", "l", "e", ".", "c", "o", "m", "/", "t", "a", "s", "m", "o", "t", "a", ".", "b", "i", "n">>
        /\ harness.url = harness.otaurl \o <<"t", "a", "s", "m", "o", "t", "a">>
                            \o VariantSuffix(harness.device.FirmwareType)
                            \o <<".", "b", "i", "n">>

\* C15 witness: the URL for the variant "sensors" under the otaurl
\* "http://ota.example.com/" has been computed
C15_Witness ==
    /\ OtaApplied
    /\ harness.otaurl = ExampleOtaUrl
    /\ harness.device.FirmwareType = sSensors
    /\ Len(harness.url) = Len(ExampleOtaUrl) + 19


\* the cycle has run to its end
CycleOver == pc \in {"done", "sleep", "end"}

\* C16: with doupdates off no request is ever sent and updateDevices is never
\* entered, in the first cycle and in every later one, whatever the Outdated
\* flags; the cycle still scans, reconciles every device and renders the
\* table of all of them.
C16_NoRequestsWhenUpdatesOff ==
    ~cfg.doupdates =>
        /\ requests = <<>>
        /\ pc \notin {"update", "upgrade"}
        /\ CycleOver =>
              /\ Returned
              /\ rendered
              /\ Len(table) = Len(knownDevices)
              /\ \A k \in 1..Len(knownDevices) :
                    LET v == NewVersion(knownDevices[k].FirmwareVersion)
                    IN  /\ ~v.isNil =>
                             (knownDevices[k].Outdated <=> LessThan(v, currentVersion))
                        /\ table[k].outdated =
                              IF knownDevices[k].Outdated THEN "outdated" ELSE ""

\* C16 witness: doupdates is off and the second cycle of the daemon has ended
\* with an outdated device in its table and no request sent
C16_Witness ==
    /\ ~cfg.doupdates
    /\ main.cycle = 2
    /\ pc = "done"
    /\ rendered
    /\ \E k \in 1..Len(knownDevices) : knownDevices[k].Outdated
    /\ requests = <<>>


\* the same devices, possibly in another order
SameDevices(s, t) ==
    /\ Len(s) = Len(t)
    /\ \A k \in 1..Len(s) : \E j \in 1..Len(t) : t[j] = s[k]
    /\ \A k \in 1..Len(t) : \E j \in 1..Len(s) : s[j] = t[k]

\* C17: a Device is made by a probe that succeeded, with Outdated = FALSE, and
\* is appended as made to the collection of the scan; within a cycle the list of devices changes only when
\* the scan hands it over, when the sort reorders it, and when reconciliation
\* turns the Outdated field of the device under the loop from FALSE to TRUE,
\* all other fields kept; rendering the table and dispatching the updates
\* change no Device.
C17_OnlyReconciliationChangesADevice ==
    /\ [](\A g \in Goroutines : Probed(g) => ~probes[g].device.Outdated)
    /\ [](\A k \in 1..Len(foundDevices) :
             /\ ~foundDevices[k].Outdated
             /\ Launched # {} =>
                   \E g \in Launched : ~probes[g].err /\ probes[g].device = foundDevices[k])
    /\ [][pc # "scanNetwork" => IsPrefix(foundDevices, foundDevices')]_vars
    /\ [][(knownDevices' # knownDevices /\ SameCycle) =>
            \/ pc = "wait" /\ knownDevices' = foundDevices
            \/ pc = "sort" /\ SameDevices(knownDevices, knownDevices')
            \/ /\ pc = "check"
               /\ idx <= Len(knownDevices)
               /\ ~knownDevices[idx].Outdated
               /\ knownDevices' = [knownDevices EXCEPT ![idx].Outdated = TRUE]]_vars
    /\ [][(pc \in {"dispatch", "update", "upgrade", "done"} /\ SameCycle) =>
            knownDevices' = knownDevices]_vars
    /\ [][(pc = "check" /\ rendered' # rendered) => knownDevices' = knownDevices]_vars

\* C17 witness: a device that was found with Outdated = FALSE is in the list
\* with Outdated = TRUE and its other fields as found, after the table and the
\* update requests
C17_Witness ==
    /\ pc = "done"
    /\ rendered
    /\ Len(requests) >= 2
    /\ \E k \in 1..Len(knownDevices), j \in 1..Len(foundDevices) :
          /\ knownDevices[k].Outdated
          /\ knownDevices[k].Name # ""
          /\ foundDevices[j] = [knownDevices[k] EXCEPT !.Outdated = FALSE]


\* the authentication part the configuration calls for: none without a
\* password, "user=admin&password=<password>&" with one
AuthPart ==
    IF cfg.password = <<>> THEN <<>>
    ELSE <<"u", "s", "e", "r", "=", "a", "d", "m", "i", "n", "&", "p", "a", "s", "s", "w", "o", "r", "d", "=">> \o cfg.password \o <<"&">>

\* "http://<host>/cm?" followed by the authentication part
RequestHead(ip) == <<"h", "t", "t", "p", ":", "/", "/">> \o IPString(ip) \o <<"/", "c", "m", "?">> \o AuthPart

StartsWith(s, t) == Len(t) <= Len(s) /\ Take(s, Len(t)) = t

\* C18: the status query of every probe is "http://<host>/cm?cmnd=Status%200"
\* when no password is configured and
\* "http://<host>/cm?user=admin&password=<password>&cmnd=Status%200" when one
\* is, and each OtaUrl and Upgrade request of the run has the same
\* authentication part, right after "/cm?" and right before its "cmnd=".
C18_AuthPartIffPassword ==
    /\ \A g \in Goroutines :
          probes[g].url # <<>> =>
             probes[g].url = RequestHead(AddressOf(g)) \o <<"c", "m", "n", "d", "=", "S", "t", "a", "t", "u", "s", "%", "2", "0", "0">>
    /\ \A k \in 1..Len(requests) :
          /\ requests[k].cmnd = "OtaUrl" =>
                StartsWith(requests[k].url, RequestHead(requests[k].IP) \o <<"c", "m", "n", "d", "=", "O", "t", "a", "U", "r", "l", "%", "2", "0">>)
          /\ requests[k].cmnd = "Upgrade" =>
                requests[k].url = RequestHead(requests[k].IP) \o <<"c", "m", "n", "d", "=", "U", "p", "g", "r", "a", "d", "e", "%", "2", "0", "1">>

\* C18 witness: a password is configured, a probe has sent its status query
\* and a device has been sent both update requests
C18_Witness ==
    /\ cfg.password # <<>>
    /\ \E g \in Goroutines : probes[g].url # <<>>
    /\ Len(requests) >= 2
    /\ requests[2].cmnd = "Upgrade"


\* nothing of the cycle is still at work: every goroutine of the scan is done,
\* the table is out and, with updates enabled, every request has been sent
CycleFinished ==
    /\ wg = 0 /\ mu = 0
    /\ \A g \in Goroutines : probes[g].pc \in {"idle", "done"}
    /\ Returned
    /\ rendered
    /\ cfg.doupdates => SentRequests = ExpectedRequests(knownDevices)

\* C19: the first cycle runs at start; a later cycle starts only from the
\* sleep of the daemon, which begins only when the cycle before has finished
\* with all its goroutines and its update dispatch, and 24 hours are slept
\* before each later cycle, so that no two cycles are at work together; with
\* the daemon off there is one cycle only, after which main returns, and
\* nothing runs after that.
C19_CyclesAreSequential ==
    /\ [](main.cycle = 1 \/ cfg.daemon)
    /\ [](main.slept = 24 * (main.cycle - 1))
    /\ [][main'.cycle # main.cycle =>
            /\ cfg.daemon
            /\ pc = "sleep" /\ pc' = "start"
            /\ main'.cycle = main.cycle + 1
            /\ CycleFinished]_vars
    /\ [][(pc' = "start" /\ pc # "start") => main'.cycle = main.cycle + 1]_vars
    /\ [][(pc' = "sleep" /\ pc # "sleep") => (pc = "done" /\ cfg.daemon)]_vars
    /\ [](pc \in {"sleep", "end"} => CycleFinished)
    /\ [](pc = "end" => (~cfg.daemon /\ main.cycle = 1))
    /\ [](~cfg.daemon => pc # "sleep")
    /\ [][pc = "end" => pc' = "end"]_vars
    /\ [](pc \in {"start", "scanNetwork"} =>
            \A g \in Goroutines : probes[g].pc = "idle")

\* C19 witness: the second cycle of the daemon is at work, with a probe out,
\* 24 hours after the first
C19_Witness ==
    /\ cfg.daemon
    /\ main.cycle = 2
    /\ main.slept = 24
    /\ pc = "launch"
    /\ \E g \in Goroutines : probes[g].pc = "probe"


\* C20: the launch loop stops after finish - start + 1 probes: at no moment
\* have more goroutines been launched than the range has addresses, and once
\* the loop is left exactly that many have been.
C20_LaunchLoopIsFinite ==
    pc \notin {"start", "scanNetwork"} =>
        /\ launched <= (finish - start) + 1
        /\ pc \notin {"launch", "exit"} => launched = (finish - start) + 1


\* the reference the feed answer of this cycle stands for
FetchedReference == getCurrentTasmotaVersion(feed).version

\* the steps of a cycle that come after the fetch of the reference
AfterFetch ==
    pc \in {"scanNetwork", "launch", "wait", "sort", "check", "dispatch", "update",
            "upgrade", "done", "sleep", "end"}

\* the loop of reconciliation has passed the k-th device of the list
Reconciled(k) == rendered \/ (pc = "check" /\ k < idx)

\* C21: the reference version is fetched once in each cycle, before the scan:
\* after the fetch of the n-th cycle there have been n fetches, neither more
\* nor fewer; the reference changes at that fetch only, so that it is the one
\* answer of the feed all through the scan and the reconciliation, and every
\* device the loop has passed is flagged against that one value.
C21_ReferenceFetchedOncePerCycle ==
    /\ [](AfterFetch => main.fetches = main.cycle)
    /\ [](pc = "start" => main.fetches = main.cycle - 1)
    /\ [][main'.fetches # main.fetches =>
            (pc = "start" /\ main'.fetches = main.fetches + 1)]_vars
    /\ [][(currentVersion' # currentVersion /\ SameCycle) => pc = "start"]_vars
    /\ [](AfterFetch => currentVersion = FetchedReference)
    /\ [](AfterFetch =>
            \A k \in 1..Len(knownDevices) :
               LET v == NewVersion(knownDevices[k].FirmwareVersion)
               IN  knownDevices[k].Outdated <=>
                      /\ Reconciled(k)
                      /\ ~v.isNil
                      /\ LessThan(v, FetchedReference))

\* C21 witness: two devices have been reconciled in a cycle, one of them
\* flagged and one not, after the one fetch of that cycle
C21_Witness ==
    /\ pc = "done"
    /\ main.fetches = main.cycle
    /\ Len(knownDevices) >= 2
    /\ \E j, k \in 1..Len(knownDevices) :
          knownDevices[j].Outdated /\ ~knownDevices[k].Outdated


\* the table of the cycle before this one
Previous == harness.previous

\* the address has given a device in the scan of this cycle
AnsweredNow(ip) ==
    \E g \in Launched : Probed(g) /\ ~probes[g].err /\ AddressOf(g) = ip

\* the row is the one of a device a probe of this cycle has made, flagged
\* against the reference of this cycle
RowOfThisCycle(row) ==
    \E g \in Launched :
       /\ Probed(g) /\ ~probes[g].err
       /\ AddressOf(g) = row.IP
       /\ row.Name = probes[g].device.Name
       /\ row.FirmwareVersion = probes[g].device.FirmwareVersion
       /\ row.FirmwareType = probes[g].device.FirmwareType
       /\ LET v == NewVersion(row.FirmwareVersion)
          IN  (row.outdated = "outdated") <=>
                 (~v.isNil /\ LessThan(v, FetchedReference))

\* C22: a cycle of the daemon takes nothing from the cycle before: its scan
\* starts with an empty collection and its reference is fetched anew; its
\* table has one row for each address that gave a device in this cycle, made
\* from the answer of this cycle and flagged against the reference of this
\* cycle, and its update requests go to such rows only. An address in the
\* table of the cycle before that gives no device now has no row and gets no
\* request, and a row flagged then is flagged now only on this cycle's answer.
C22_NothingCarriedAcrossCycles ==
    /\ [][(pc = "scanNetwork" /\ pc' = "launch") => foundDevices' = <<>>]_vars
    /\ [](pc \in {"start", "scanNetwork", "launch", "wait"} =>
            /\ knownDevices = <<>> /\ table = <<>> /\ requests = <<>>
            /\ ~rendered)
    /\ [](AfterFetch => main.fetches = main.cycle)
    /\ [](pc \in {"launch", "wait", "sort", "check", "dispatch", "update", "upgrade",
                    "done", "sleep"} =>
            /\ Len(foundDevices) = Cardinality({g \in Launched :
                                          /\ ~probes[g].err
                                          /\ probes[g].pc \in {"unlock", "increment", "done"}})
            /\ \A k \in 1..Len(foundDevices) :
                  ~foundDevices[k].Outdated /\ AnsweredNow(foundDevices[k].IP))
    /\ [](rendered =>
            /\ Len(table) = Cardinality({g \in Launched : ~probes[g].err})
            /\ \A k \in 1..Len(table) : RowOfThisCycle(table[k])
            /\ \A r \in 1..Len(requests) :
                  \E k \in 1..Len(table) :
                     table[k].IP = requests[r].IP /\ table[k].outdated = "outdated"
            /\ \A j \in 1..Len(Previous) :
                  ~AnsweredNow(Previous[j].IP) =>
                     /\ \A k \in 1..Len(table) : table[k].IP # Previous[j].IP
                     /\ \A r \in 1..Len(requests) : requests[r].IP # Previous[j].IP)

\* C22 witness: the cycle before had two devices in its table, the first one
\* flagged; in this cycle the second gave no answer and the first answered
\* with a firmware that is not behind: the table has the one row, not flagged,
\* and no request was sent
C22_Witness ==
    /\ main.cycle = 2
    /\ pc = "done"
    /\ cfg.doupdates
    /\ Len(Previous) = 2
    /\ Previous[1].outdated = "outdated"
    /\ Len(table) = 1
    /\ table[1].IP = Previous[1].IP
    /\ table[1].outdated = ""
    /\ requests = <<>>


\* the k-th request sent is an OtaUrl request that came back from getURL,
\* with an error or without
OtaUrlCameBack(sent, k) ==
    /\ sent[k].cmnd = "OtaUrl"
    /\ ~getURL(sent[k].resp).panic

\* the request after the k-th is the Upgrade request to the same device
UpgradeFollows(sent, k) ==
    /\ k < Len(sent)
    /\ sent[k + 1].cmnd = "Upgrade"
    /\ sent[k + 1].IP = sent[k].IP

\* C23: an OtaUrl request that getURL came back from, whether with an error,
\* with a status outside 2xx or with success, is followed by the Upgrade
\* request to the same device: the dispatcher goes from the one to the other
\* whatever the answer was, and its next step sends the Upgrade (unless a
\* signal ends the process in between).
C23_UpgradeFollowsOtaUrlWhateverItsResult ==
    /\ [][(pc = "update" /\ requests' # requests) =>
            /\ Len(requests') = Len(requests) + 1
            /\ requests'[Len(requests')].cmnd = "OtaUrl"
            /\ OtaUrlCameBack(requests', Len(requests')) => pc' = "upgrade"]_vars
    /\ [][(pc = "upgrade" /\ pc' # "upgrade") =>
            \/ StoppedBySignal'
            \/ /\ Len(requests') = Len(requests) + 1
               /\ UpgradeFollows(requests', Len(requests))]_vars
    /\ [](\A k \in 1..Len(requests) :
            OtaUrlCameBack(requests, k) =>
               \/ UpgradeFollows(requests, k)
               \/ k = Len(requests) /\ (pc = "upgrade" \/ StoppedBySignal))

\* C23 witness: the OtaUrl request to a device got no answer (getURL returned
\* an error) and the Upgrade request to that device was sent and answered
C23_Witness ==
    /\ Len(requests) >= 2
    /\ requests[1].cmnd = "OtaUrl"
    /\ getURL(requests[1].resp).err
    /\ requests[2].cmnd = "Upgrade"
    /\ requests[2].IP = requests[1].IP
    /\ requests[2].resp.kind = "http" /\ requests[2].resp.status = 200


\* the probes that have run to their end
Completed == {g \in Launched : probes[g].pc = "done"}

\* the tracker counts the probes that have completed, one increment for each,
\* with or without a device, and an increment leaves every list as it is
ProgressIsASideChannel ==
    /\ [](tracker.value = Cardinality(Completed))
    /\ [][(tracker'.value # tracker.value /\ SameCycle) =>
            /\ tracker'.value = tracker.value + 1
            /\ \E g \in Launched : probes[g].pc = "increment" /\ probes'[g].pc = "done"
            /\ foundDevices' = foundDevices
            /\ knownDevices' = knownDevices]_vars
    /\ [](Returned => tracker.value = launched)

\* C24: the tracker is incremented once for each launched probe, with or
\* without a device, and an increment changes no list of devices; when the
\* scan has completed the number of increments is the Total of the tracker
\* and the count announced in "Starting scan of N ip addresses", which is the
\* number of probes launched.
C24_ProgressCountsTheProbes ==
    /\ ProgressIsASideChannel
    /\ [](Returned =>
            /\ tracker.value = tracker.Total
            /\ tracker.value = announced
            /\ announced = launched)

=============================================================================
